---- MODULE Spec2Model ----
(***************************************************************************)
(* Model of src/app.py: the cat weight tracker (login gate, weights table, *)
(* index/add/delete routes, calculate_age_months, the reference band of    *)
(* create_interactive_plot).                                               *)
(*                                                                         *)
(* Representation.                                                         *)
(*   Timestamp  : whole minutes since 0001-01-01 00:00 (proleptic          *)
(*                Gregorian), the integer a pandas Timestamp / datetime is *)
(*                compared and subtracted by, at minute resolution.        *)
(*   real number: an exact fraction <<num, den>> with den > 0 (ages in     *)
(*                months, band values); weights are hundredths of a kg.    *)
(*   text       : a form date is either date-shaped text "YYYY-MM-DD",     *)
(*                held as its three fields [y, m, d] (which need not be a  *)
(*                real calendar date), or text of no date shape; a form    *)
(*                time is "HH:MM" text held as [hh, mi], or empty; a form  *)
(*                weight is a sequence of one-character strings.           *)
(*   figure     : the two band traces of a figure are not stored sample by *)
(*                sample; its band field holds the reference table and     *)
(*                max_interp_x, of which BandSample computes sample i.     *)
(*   order      : rows with equal sort keys come out in one fixed order.   *)
(***************************************************************************)
EXTENDS Integers, Sequences, FiniteSets, TLC

VARIABLES
    session,      \* the session cookie: [user |-> name] or NoValue
    tableExists,  \* whether the weights table exists in the database
    weights,      \* the rows of table weights: a set of [id, cat_name, date_str, weight]
    nextId,       \* the id the storage assigns to the next inserted row
    now,          \* the wall clock, a Timestamp
    request,      \* the last request served
    response,     \* what the last request returned
    probe         \* inputs and outputs of the pure functions under SpecAge / SpecBand

vars == <<session, tableExists, weights, nextId, now, request, response, probe>>

appVars == <<session, tableExists, weights, nextId, now, request, response>>

NoValue == "None"

(***************************************************************************)
(* Exact fractions.                                                        *)
(***************************************************************************)
Rat(n, d) == <<n, d>>

RatLE(a, b) == a[1] * b[2] <= b[1] * a[2]

RatLT(a, b) == a[1] * b[2] < b[1] * a[2]

RatEQ(a, b) == a[1] * b[2] = b[1] * a[2]

RatMax(a, b) == IF RatLT(a, b) THEN b ELSE a

(***************************************************************************)
(* Calendar arithmetic of datetime / pandas.Timestamp.                     *)
(***************************************************************************)
MinutesPerDay == 24 * 60

IsLeap(y) == (y % 4 = 0) /\ ((y % 100 # 0) \/ (y % 400 = 0))

DaysInMonth(y, m) ==
    IF m = 2 THEN (IF IsLeap(y) THEN 29 ELSE 28)
    ELSE IF m \in {4, 6, 9, 11} THEN 30 ELSE 31

\* days of the year before the first of month m
DaysBeforeMonth(y, m) ==
    <<0, 31, 59, 90, 120, 151, 181, 212, 243, 273, 304, 334>>[m]
      + (IF m > 2 /\ IsLeap(y) THEN 1 ELSE 0)

DaysBeforeYear(y) ==
    (y - 1) * 365 + ((y - 1) \div 4) - ((y - 1) \div 100) + ((y - 1) \div 400)

\* date.toordinal(): 0001-01-01 is day 1
Ordinal(y, m, d) == DaysBeforeYear(y) + DaysBeforeMonth(y, m) + d

\* date.fromordinal(): the calendar fields of a day number.  The day index
\* n - 1 is split into 400-, 100-, 4- and 1-year cycles; the month is
\* estimated from the day of the year and corrected.
MonthAndDay(year, r1, month) ==
    [y |-> year, m |-> month, d |-> r1 - DaysBeforeMonth(year, month) + 1]

DayOfYearToDate(year, r1, guess) ==
    MonthAndDay(year, r1, IF DaysBeforeMonth(year, guess) > r1 THEN guess - 1 ELSE guess)

YearCycles(n400, n100, n4, n1, r1) ==
    IF n1 = 4 \/ n100 = 4
    THEN [y |-> n400 * 400 + n100 * 100 + n4 * 4 + n1, m |-> 12, d |-> 31]
    ELSE DayOfYearToDate(n400 * 400 + 1 + n100 * 100 + n4 * 4 + n1, r1, (r1 + 50) \div 32)

FromOrdinal(n) ==
    YearCycles((n - 1) \div 146097,
               ((n - 1) % 146097) \div 36524,
               (((n - 1) % 146097) % 36524) \div 1461,
               ((((n - 1) % 146097) % 36524) % 1461) \div 365,
               ((((n - 1) % 146097) % 36524) % 1461) % 365)

Timestamp(y, m, d, hh, mi) == (Ordinal(y, m, d) - 1) * MinutesPerDay + hh * 60 + mi

DayOf(ts) == (ts \div MinutesPerDay) + 1

DateOf(ts) == FromOrdinal(DayOf(ts))

MinuteOfDay(ts) == ts % MinutesPerDay

HourOf(ts) == MinuteOfDay(ts) \div 60

MinuteOf(ts) == MinuteOfDay(ts) % 60

\* timedelta(days=n) added to / subtracted from a Timestamp
PlusDays(ts, n) == ts + n * MinutesPerDay

\* (a - b).days
DaysBetween(a, b) == (a - b) \div MinutesPerDay

\* the date (yy, mm, d) with d clamped to the month's last day, at minute
\* tod of the day
ClampedDay(yy, mm, d, tod) ==
    Timestamp(yy, mm, IF d > DaysInMonth(yy, mm) THEN DaysInMonth(yy, mm) ELSE d, 0, 0) + tod

ShiftMonth(f, n, tod) ==
    ClampedDay(f.y + (((f.m - 1) + n) \div 12), (((f.m - 1) + n) % 12) + 1, f.d, tod)

\* ts + relativedelta(months=n) and ts + pd.DateOffset(months=n): the month
\* moves by n, the day is clamped to the target month's last day, the time
\* of day is kept.
AddMonths(ts, n) == ShiftMonth(DateOf(ts), n, MinuteOfDay(ts))

\* relativedelta(dt1, dt2) for dt1 >= dt2: start from the calendar month
\* difference and step back while dt2 + months is after dt1; what is left
\* over is counted in whole days.
RECURSIVE RelativeDeltaMonths(_, _, _)
RelativeDeltaMonths(dt1, dt2, months) ==
    IF dt1 < AddMonths(dt2, months)
    THEN RelativeDeltaMonths(dt1, dt2, months - 1)
    ELSE months

MonthDifference(f1, f2) == (f1.y - f2.y) * 12 + (f1.m - f2.m)

RelativeDeltaOf(dt1, dt2, months) ==
    [years  |-> months \div 12,
     months |-> months % 12,
     days   |-> DaysBetween(dt1, AddMonths(dt2, months))]

RelativeDelta(dt1, dt2) ==
    RelativeDeltaOf(dt1, dt2,
        RelativeDeltaMonths(dt1, dt2, MonthDifference(DateOf(dt1), DateOf(dt2))))

(***************************************************************************)
(* calculate_age_months (src/app.py:26-34).                                *)
(***************************************************************************)
\* The body is split into operators so that each intermediate value of the
\* code is computed once and handed on:
\*   rd             = RelativeDelta(current_date, birth_date)        line 28
\*   full_months    = FullMonths(rd)                                 line 29
\*   start_of_month = AddMonths(birth_date, full_months)             line 30
\*   end_of_month   = AddMonths(birth_date, full_months + 1)         line 31
\*   days_in_month  = DaysBetween(end_of_month, start_of_month)      line 32
\*   fraction, result = MonthFraction(full_months, rd.days, days_in_month)
\*                                                               lines 33-34
MonthFraction(full_months, days, days_in_month) ==
    IF days_in_month > 0
    THEN Rat(full_months * days_in_month + days, days_in_month)
    ELSE Rat(full_months, 1)

AgeFromDelta(birth_date, full_months, days) ==
    MonthFraction(full_months, days,
        DaysBetween(AddMonths(birth_date, full_months + 1),
                    AddMonths(birth_date, full_months)))

FullMonths(rd) == rd.years * 12 + rd.months

AgeOfDelta(birth_date, rd) == AgeFromDelta(birth_date, FullMonths(rd), rd.days)

\* variants of calculate_age_months, each with one plausible slip
\* no clamp before birth: a signed day count over an average month
calculate_age_months_unclamped(current_date, birth_date) ==
    IF current_date < birth_date
    THEN Rat(DaysBetween(current_date, birth_date), 30)
    ELSE AgeOfDelta(birth_date, RelativeDelta(current_date, birth_date))

\* the month's end taken one month after its (clamped) start, not from birth
AgeFromDelta_shortmonth(birth_date, full_months, days) ==
    MonthFraction(full_months, days,
        DaysBetween(AddMonths(AddMonths(birth_date, full_months), 1),
                    AddMonths(birth_date, full_months)))

AgeOfDelta_shortmonth(birth_date, rd) ==
    AgeFromDelta_shortmonth(birth_date, FullMonths(rd), rd.days)

calculate_age_months_shortmonth(current_date, birth_date) ==
    IF current_date < birth_date THEN Rat(0, 1)
    ELSE AgeOfDelta_shortmonth(birth_date, RelativeDelta(current_date, birth_date))

\* an average month of 30 days instead of the elapsed month's own length
AgeOfDelta_avgmonth(rd) == MonthFraction(FullMonths(rd), rd.days, 30)

calculate_age_months_avgmonth(current_date, birth_date) ==
    IF current_date < birth_date THEN Rat(0, 1)
    ELSE AgeOfDelta_avgmonth(RelativeDelta(current_date, birth_date))

calculate_age_months(current_date, birth_date) ==
    IF current_date < birth_date THEN Rat(0, 1)
    ELSE AgeOfDelta(birth_date, RelativeDelta(current_date, birth_date))

(***************************************************************************)
(* SpecAge: calculate_age_months applied to a timestamp that moves forward *)
(* past a birth date, for birth dates on the 29th, 30th and 31st and on a  *)
(* leap day.  probe holds the last two timestamps and the ages returned.   *)
(***************************************************************************)
LeadDays == 3

HorizonDays == 400

MaxJumpDays == 4

\* 2025-08-30 is the application's birth date (src/app.py:173)
Births ==
    { Timestamp(2025, 8, 30, 0, 0), Timestamp(2024, 1, 31, 0, 0),
      Timestamp(2025, 1, 31, 0, 0), Timestamp(2024, 2, 29, 0, 0),
      Timestamp(2025, 3, 30, 0, 0), Timestamp(2025, 12, 29, 0, 0) }

TimesOfDay == { 0, 13 * 60 + 30 }

IdleProbe == [kind |-> "idle"]

AgeProbe(birth, d1, a1, d2) ==
    [kind |-> "age", birth |-> birth, d1 |-> d1, a1 |-> a1,
     d2 |-> d2, a2 |-> calculate_age_months(d2, birth)]

AgeStep ==
    /\ probe.kind = "age"
    /\ \E k \in 0..MaxJumpDays, tod \in TimesOfDay :
          LET d == PlusDays(probe.d2 - MinuteOfDay(probe.d2), k) + tod
          IN  /\ d > probe.d2
              /\ d <= PlusDays(probe.birth, HorizonDays)
              /\ probe' = AgeProbe(probe.birth, probe.d2, probe.a2, d)
    /\ UNCHANGED appVars

(***************************************************************************)
(* The application: constants of src/app.py.                               *)
(***************************************************************************)
USERS == [moudimash99 |-> "mashaka99"]

BIRTH_DATE == Timestamp(2025, 8, 30, 0, 0)

DefaultDuration == 2

DaysPerMonth == 30

ViewPadDays == 7

NumSamples == 300

\* (age in months, lower kg, upper kg); kg in hundredths; 7/30.44 = 175/761
MALE_REF ==
    << <<Rat(0, 1), 8, 17>>, <<Rat(175, 761), 18, 29>>, <<Rat(350, 761), 29, 43>>,
       <<Rat(525, 761), 42, 60>>, <<Rat(1, 1), 61, 82>>, <<Rat(2, 1), 90, 180>>,
       <<Rat(3, 1), 170, 230>>, <<Rat(4, 1), 290, 410>>, <<Rat(5, 1), 330, 540>>,
       <<Rat(6, 1), 340, 590>>, <<Rat(7, 1), 410, 630>>, <<Rat(8, 1), 440, 680>>,
       <<Rat(9, 1), 500, 730>>, <<Rat(10, 1), 510, 770>> >>

FEMALE_REF ==
    << <<Rat(0, 1), 8, 15>>, <<Rat(175, 761), 15, 26>>, <<Rat(350, 761), 27, 41>>,
       <<Rat(525, 761), 41, 55>>, <<Rat(1, 1), 55, 74>>, <<Rat(2, 1), 90, 140>>,
       <<Rat(3, 1), 140, 230>>, <<Rat(4, 1), 250, 360>>, <<Rat(5, 1), 270, 420>>,
       <<Rat(6, 1), 310, 450>>, <<Rat(7, 1), 330, 450>>, <<Rat(8, 1), 370, 500>>,
       <<Rat(9, 1), 410, 540>>, <<Rat(10, 1), 400, 540>> >>

(***************************************************************************)
(* Text conversions: float(weight), f"{date} {time}", pd.to_datetime.      *)
(***************************************************************************)
Digits == <<"0", "1", "2", "3", "4", "5", "6", "7", "8", "9">>

IsDigit(c) == \E k \in 1..10 : Digits[k] = c

DigitValue(c) == (CHOOSE k \in 1..10 : Digits[k] = c) - 1

RECURSIVE DigitsValue(_)
DigitsValue(cs) ==
    IF cs = << >> THEN 0
    ELSE DigitsValue(SubSeq(cs, 1, Len(cs) - 1)) * 10 + DigitValue(cs[Len(cs)])

DotsAt(cs) == { k \in 1..Len(cs) : cs[k] = "." }

\* the decimal literals float() accepts that the model's forms can send:
\* digits, at most one ".", at least one digit, at most two decimals
FloatOK(cs) ==
    /\ \A k \in 1..Len(cs) : IsDigit(cs[k]) \/ cs[k] = "."
    /\ Cardinality(DotsAt(cs)) <= 1
    /\ \E k \in 1..Len(cs) : IsDigit(cs[k])
    /\ \A k \in DotsAt(cs) : Len(cs) - k <= 2

\* float(weight), in hundredths
ParseFloat(cs) ==
    IF DotsAt(cs) = {} THEN DigitsValue(cs) * 100
    ELSE LET k    == CHOOSE j \in DotsAt(cs) : TRUE
             frac == SubSeq(cs, k + 1, Len(cs))
         IN  DigitsValue(SubSeq(cs, 1, k - 1)) * 100
               + (IF Len(frac) = 1 THEN DigitsValue(frac) * 10 ELSE DigitsValue(frac))

DateText(y, m, d) == [shape |-> "YYYY-MM-DD", y |-> y, m |-> m, d |-> d]

GarbageText == [shape |-> "garbage"]

TimeText(hh, mi) == [shape |-> "HH:MM", hh |-> hh, mi |-> mi]

EmptyText == [shape |-> "empty"]

\* f"{date} {time}"
FormatDateStr(date, time) == [date |-> date, time |-> time]

\* datetime.now().strftime('%H:%M')
StrfHM(ts) == TimeText(HourOf(ts), MinuteOf(ts))

\* whether pd.to_datetime accepts the text
Parseable(date_str) ==
    /\ date_str.date.shape = "YYYY-MM-DD"
    /\ date_str.time.shape = "HH:MM"
    /\ date_str.date.m \in 1..12
    /\ date_str.date.d \in 1..DaysInMonth(date_str.date.y, date_str.date.m)
    /\ date_str.time.hh \in 0..23
    /\ date_str.time.mi \in 0..59

ToDatetime(date_str) ==
    Timestamp(date_str.date.y, date_str.date.m, date_str.date.d,
              date_str.time.hh, date_str.time.mi)

\* text order of two date_str values of the "YYYY-MM-DD HH:MM" shape
DateStrKey(date_str) ==
    <<date_str.date.y, date_str.date.m, date_str.date.d,
      date_str.time.hh, date_str.time.mi>>

RECURSIVE LexLess(_, _)
LexLess(a, b) ==
    IF a = << >> THEN FALSE
    ELSE IF a[1] # b[1] THEN a[1] < b[1]
    ELSE LexLess(Tail(a), Tail(b))

DateStrLE(a, b) == a = b \/ LexLess(DateStrKey(a), DateStrKey(b))

(***************************************************************************)
(* Arithmetic on exact fractions, kept in lowest terms.                    *)
(***************************************************************************)
Abs(n) == IF n < 0 THEN -n ELSE n

RECURSIVE GCD(_, _)
GCD(a, b) == IF b = 0 THEN a ELSE GCD(b, a % b)

RatNorm(n, d) ==
    LET g == GCD(Abs(n), d)
    IN  IF g = 0 THEN Rat(0, 1) ELSE Rat(n \div g, d \div g)

RatAdd(a, b) == RatNorm(a[1] * b[2] + b[1] * a[2], a[2] * b[2])

RatSub(a, b) == RatNorm(a[1] * b[2] - b[1] * a[2], a[2] * b[2])

\* a * b, cancelling across the two fractions before multiplying
RatMul(a, b) ==
    LET x  == RatNorm(a[1], b[2])
        y  == RatNorm(b[1], a[2])
    IN  RatNorm(x[1] * y[1], x[2] * y[2])

\* a / b for b > 0
RatDiv(a, b) == RatMul(a, Rat(b[2], b[1]))

(***************************************************************************)
(* The reference band (src/app.py:60-68): np.linspace and np.interp.       *)
(***************************************************************************)
Column(ref_data, c) == [k \in 1..Len(ref_data) |-> ref_data[k][c]]

RECURSIVE SeqRatMax(_)
SeqRatMax(xs) ==
    IF Len(xs) = 1 THEN xs[1]
    ELSE RatMax(SeqRatMax(SubSeq(xs, 1, Len(xs) - 1)), xs[Len(xs)])

\* np.linspace(0, stop, num)[i], i = 0 .. num - 1
Linspace(stop, num, i) == RatNorm(i * stop[1], (num - 1) * stop[2])

\* a variant of Interp with one plausible slip: between two calibration
\* points it holds the left point's value instead of interpolating
Interp_step(x, xp, fp) ==
    LET n == Len(xp)
    IN  IF RatLT(x, xp[1]) THEN Rat(fp[1], 1)
        ELSE IF RatLE(xp[n], x) THEN Rat(fp[n], 1)
        ELSE LET j == CHOOSE k \in 1..(n - 1) : RatLE(xp[k], x) /\ RatLT(x, xp[k + 1])
             IN  Rat(fp[j], 1)

\* np.interp(x, xp, fp) for increasing xp: fp[first] left of the table,
\* fp[last] right of it and at its last point, and otherwise
\* slope * (x - xp[j]) + fp[j] on the interval xp[j] <= x < xp[j+1]
Interp(x, xp, fp) ==
    LET n == Len(xp)
    IN  IF RatLT(x, xp[1]) THEN Rat(fp[1], 1)
        ELSE IF RatLT(xp[n], x) THEN Rat(fp[n], 1)
        ELSE IF RatEQ(x, xp[n]) THEN Rat(fp[n], 1)
        ELSE LET j     == CHOOSE k \in 1..(n - 1) : RatLE(xp[k], x) /\ RatLT(x, xp[k + 1])
                 slope == RatDiv(Rat(fp[j + 1] - fp[j], 1), RatSub(xp[j + 1], xp[j]))
             IN  RatAdd(RatMul(slope, RatSub(x, xp[j])), Rat(fp[j], 1))

\* max_interp_x (line 65)
MaxInterpX(end_view, ref_data) == RatMax(end_view, SeqRatMax(Column(ref_data, 1)))

\* sample i of (interp_months, interp_min, interp_max), lines 66-68
BandSample(ref_data, max_interp_x, i) ==
    LET x == Linspace(max_interp_x, NumSamples, i)
    IN  [x  |-> x,
         lo |-> Interp(x, Column(ref_data, 1), Column(ref_data, 2)),
         hi |-> Interp(x, Column(ref_data, 1), Column(ref_data, 3))]

(***************************************************************************)
(* create_interactive_plot (src/app.py:48-123).  df is a set of rows with  *)
(* the columns id, cat_name, date_str, weight, date, age_months.  The two  *)
(* band traces are the function i |-> BandSample(band.ref_data,            *)
(* band.max_interp_x, i) of the figure's band field.                       *)
(***************************************************************************)
MinDate(df) == CHOOSE t \in { r.date : r \in df } : \A r \in df : t <= r.date

MaxDate(df) == CHOOSE t \in { r.date : r \in df } : \A r \in df : r.date <= t

\* sort_values('date'): ascending by date
RECURSIVE SortByDate(_)
SortByDate(df) ==
    IF df = {} THEN << >>
    ELSE LET first == CHOOSE r \in df : \A q \in df : r.date <= q.date
         IN  <<first>> \o SortByDate(df \ {first})

TracePoint(r) == [x |-> r.age_months, y |-> r.weight, date |-> DateOf(r.date)]

NoPlot == [kind |-> NoValue]

\* a variant of create_interactive_plot with one plausible slip: the view
\* limits are taken from the plotted cat's rows when it has any
create_interactive_plot_catrange(df, cat_name, ref_data, birth_date) ==
    LET rows       == { r \in df : r.cat_name = cat_name }
        cat_df     == SortByDate(rows)
        min_date   == MinDate(IF rows = {} THEN df ELSE rows)
        max_date   == MaxDate(IF rows = {} THEN df ELSE rows)
        start_view == calculate_age_months(PlusDays(min_date, -ViewPadDays), birth_date)
        end_view   == calculate_age_months(PlusDays(max_date, ViewPadDays), birth_date)
    IN  [kind   |-> "figure",
         title  |-> cat_name,
         band   |-> [ref_data |-> ref_data,
                     max_interp_x |-> MaxInterpX(end_view, ref_data)],
         trace  |-> [k \in 1..Len(cat_df) |-> TracePoint(cat_df[k])],
         xrange |-> <<start_view, end_view>>]

create_interactive_plot(df, cat_name, ref_data, birth_date) ==
    LET cat_df     == SortByDate({ r \in df : r.cat_name = cat_name })
        min_date   == MinDate(df)
        max_date   == MaxDate(df)
        start_view == calculate_age_months(PlusDays(min_date, -ViewPadDays), birth_date)
        end_view   == calculate_age_months(PlusDays(max_date, ViewPadDays), birth_date)
    IN  [kind   |-> "figure",
         title  |-> cat_name,
         band   |-> [ref_data |-> ref_data,
                     max_interp_x |-> MaxInterpX(end_view, ref_data)],
         trace  |-> [k \in 1..Len(cat_df) |-> TracePoint(cat_df[k])],
         xrange |-> <<start_view, end_view>>]

(***************************************************************************)
(* Requests the model sends and the bounds on them.                        *)
(***************************************************************************)
MaxId == 2

MaxTicks == 2

TickDays == 40

ClockStart == Timestamp(2026, 1, 5, 8, 15)

Usernames == { "moudimash99", "guest" }

Passwords == { "mashaka99", "letmein" }

CatNames == { "Simba", "Nala" }

\* 2026-02-30 is date-shaped text that is no calendar date
FormDates ==
    { DateText(2025, 8, 27), DateText(2026, 1, 3), DateText(2026, 2, 30), GarbageText }

FormTimes == { TimeText(9, 30), EmptyText }

FormWeights == { <<"4", ".", "2", "5">>, <<"a", "b", "c">> }

Durations == { DefaultDuration, 12 }

EntryIds == 1..(MaxId + 1)

(***************************************************************************)
(* Responses.                                                              *)
(***************************************************************************)
RedirectTo(endpoint) == [kind |-> "redirect", to |-> endpoint]

ServerError == [kind |-> "error", status |-> 500]

LoginPage(error) == [kind |-> "page", template |-> "login.html", error |-> error]

IndexPage(simba_json, nala_json, table_data, username, duration) ==
    [kind |-> "page", template |-> "index.html",
     simba_plot |-> simba_json, nala_plot |-> nala_json,
     table_data |-> table_data, username |-> username, duration |-> duration]

(***************************************************************************)
(* The session and the login gate (src/app.py:125-148).                    *)
(***************************************************************************)
EmptySession == [k \in {} |-> NoValue]

HasUser(sess) == "user" \in DOMAIN sess

CredentialsOK(username, password) ==
    username \in DOMAIN USERS /\ USERS[username] = password

\* a variant of LoginSession with one plausible slip: the credentials are
\* not compared
LoginSession_unchecked(sess, username, password) == [user |-> username]

\* lines 131-135: the session after POST /login
LoginSession(sess, username, password) ==
    IF CredentialsOK(username, password) THEN [user |-> username] ELSE sess

\* line 141: session.pop('user', None)
LogoutSession(sess) == EmptySession

(***************************************************************************)
(* Storage: table weights(id, cat_name, date_str, weight).  The schema is  *)
(* not part of src/app.py; ids are assigned as the storage interface says  *)
(* (auto-increment primary key).                                           *)
(***************************************************************************)
AutoIncrementId(next) == next

\* a variant of NewRow with one plausible slip: the submitted time is ignored
NewRow_clocktime(id, cat, weight, date, time, clock) ==
    [id       |-> id,
     cat_name |-> cat,
     date_str |-> FormatDateStr(date, StrfHM(clock)),
     weight   |-> ParseFloat(weight)]

\* lines 206-215: the row add_entry inserts
NewRow(id, cat, weight, date, time, clock) ==
    [id       |-> id,
     cat_name |-> cat,
     date_str |-> IF time # EmptyText
                  THEN FormatDateStr(date, time)
                  ELSE FormatDateStr(date, StrfHM(clock)),
     weight   |-> ParseFloat(weight)]

\* a variant of DeleteRows with one plausible slip: <= instead of =
DeleteRows_upto(table, entry_id) == { r \in table : r.id > entry_id }

\* line 227: DELETE FROM weights WHERE id = ?
DeleteRows(table, entry_id) == { r \in table : r.id # entry_id }

(***************************************************************************)
(* index (src/app.py:144-193).                                             *)
(***************************************************************************)
\* lines 156-162: the query result, empty when the query fails
ReadAll(exists, table) == IF exists THEN table ELSE {}

\* line 154
StartDate(today, duration_months) == PlusDays(today, -(duration_months * DaysPerMonth))

\* a variant of Filtered with one plausible slip: the duration filter is lost
Filtered_all(df, start_date, birth_date) ==
    { [id |-> r.id, cat_name |-> r.cat_name, date_str |-> r.date_str,
       weight |-> r.weight, date |-> ToDatetime(r.date_str),
       age_months |-> calculate_age_months(ToDatetime(r.date_str), birth_date)] :
      r \in df }

\* lines 170-174: the rows with their date and age_months columns, filtered
Filtered(df, start_date, birth_date) ==
    { [id |-> r.id, cat_name |-> r.cat_name, date_str |-> r.date_str,
       weight |-> r.weight, date |-> ToDatetime(r.date_str),
       age_months |-> calculate_age_months(ToDatetime(r.date_str), birth_date)] :
      r \in { q \in df : ToDatetime(q.date_str) >= start_date } }

\* line 182: sort_values('date_str', ascending=False) and the four columns
RECURSIVE TableData(_)
TableData(df) ==
    IF df = {} THEN << >>
    ELSE LET first == CHOOSE r \in df : \A q \in df : DateStrLE(q.date_str, r.date_str)
         IN  << <<first.id, first.cat_name, first.date_str, first.weight>> >>
               \o TableData(df \ {first})

IndexResponse(sess, exists, table, today, duration_months) ==
    IF ~HasUser(sess) THEN RedirectTo("login")
    ELSE LET df == ReadAll(exists, table)
         IN  IF df = {}
             THEN IndexPage(NoPlot, NoPlot, << >>, sess.user, duration_months)
             ELSE IF \E r \in df : ~Parseable(r.date_str)
             THEN ServerError
             ELSE LET df_filtered ==
                          Filtered(df, StartDate(today, duration_months), BIRTH_DATE)
                  IN  IF df_filtered # {}
                      THEN IndexPage(
                               create_interactive_plot(df_filtered, "Simba", MALE_REF, BIRTH_DATE),
                               create_interactive_plot(df_filtered, "Nala", FEMALE_REF, BIRTH_DATE),
                               TableData(df_filtered), sess.user, duration_months)
                      ELSE IndexPage(NoPlot, NoPlot, << >>, sess.user, duration_months)

(***************************************************************************)
(* The handlers as actions.                                                *)
(***************************************************************************)
login_get ==
    /\ request' = [route |-> "login", method |-> "GET"]
    /\ response' = LoginPage(FALSE)
    /\ UNCHANGED <<session, tableExists, weights, nextId, now, probe>>

login_post ==
    \E username \in Usernames, password \in Passwords :
        /\ request' = [route |-> "login", method |-> "POST",
                       username |-> username, password |-> password]
        /\ session' = LoginSession(session, username, password)
        /\ response' = IF CredentialsOK(username, password)
                       THEN RedirectTo("index") ELSE LoginPage(TRUE)
        /\ UNCHANGED <<tableExists, weights, nextId, now, probe>>

logout ==
    /\ request' = [route |-> "logout"]
    /\ session' = LogoutSession(session)
    /\ response' = RedirectTo("login")
    /\ UNCHANGED <<tableExists, weights, nextId, now, probe>>

index ==
    \E duration_months \in Durations :
        /\ request' = [route |-> "index", duration |-> duration_months]
        /\ response' = IndexResponse(session, tableExists, weights, now, duration_months)
        /\ UNCHANGED <<session, tableExists, weights, nextId, now, probe>>

add_entry ==
    \E cat \in CatNames, weight \in FormWeights, date \in FormDates, time \in FormTimes :
        /\ request' = [route |-> "add", cat_name |-> cat, weight |-> weight,
                       date |-> date, time |-> time]
        /\ IF ~HasUser(session)
           THEN /\ response' = RedirectTo("login")
                /\ UNCHANGED <<weights, nextId>>
           ELSE IF ~FloatOK(weight) \/ ~tableExists
           THEN /\ response' = ServerError
                /\ UNCHANGED <<weights, nextId>>
           ELSE /\ nextId <= MaxId
                /\ weights' = weights \cup
                       { NewRow(AutoIncrementId(nextId), cat, weight, date, time, now) }
                /\ nextId' = nextId + 1
                /\ response' = RedirectTo("index")
        /\ UNCHANGED <<session, tableExists, now, probe>>

delete_entry ==
    \E entry_id \in EntryIds :
        /\ request' = [route |-> "delete", entry_id |-> entry_id]
        /\ IF ~HasUser(session)
           THEN /\ response' = RedirectTo("login")
                /\ UNCHANGED weights
           ELSE IF ~tableExists
           THEN /\ response' = ServerError
                /\ UNCHANGED weights
           ELSE /\ weights' = DeleteRows(weights, entry_id)
                /\ response' = RedirectTo("index")
        /\ UNCHANGED <<session, tableExists, nextId, now, probe>>

\* the wall clock moves on between requests
Tick ==
    /\ now < PlusDays(ClockStart, MaxTicks * TickDays)
    /\ now' = PlusDays(now, TickDays)
    /\ UNCHANGED <<session, tableExists, weights, nextId, request, response, probe>>

AppInit ==
    /\ session = EmptySession
    /\ weights = {}
    /\ nextId = 1
    /\ now = ClockStart
    /\ request = [route |-> NoValue]
    /\ response = [kind |-> NoValue]

Init ==
    /\ AppInit
    /\ tableExists \in BOOLEAN
    /\ probe = IdleProbe

Next ==
    \/ login_get
    \/ login_post
    \/ logout
    \/ index
    \/ add_entry
    \/ delete_entry
    \/ Tick

Spec == Init /\ [][Next]_vars

(***************************************************************************)
(* SpecAge.                                                                *)
(***************************************************************************)
InitAge ==
    /\ AppInit
    /\ tableExists = TRUE
    /\ \E birth \in Births :
          LET d == PlusDays(birth, -LeadDays)
          IN  probe = AgeProbe(birth, d, calculate_age_months(d, birth), d)

NextAge == AgeStep

SpecAge == InitAge /\ [][NextAge]_vars

(***************************************************************************)
(* SpecBand: the band of create_interactive_plot, sample by sample, for    *)
(* both reference tables and for latest record dates whose padded age lies *)
(* below, at and beyond the last calibration age.                          *)
(***************************************************************************)
BandMaxDates ==
    { Timestamp(2026, 1, 3, 9, 30), Timestamp(2026, 6, 23, 0, 0),
      Timestamp(2026, 8, 8, 9, 30), Timestamp(2026, 9, 23, 8, 15) }

BandProbe(ref_data, max_date, i) ==
    LET end_view == calculate_age_months(PlusDays(max_date, ViewPadDays), BIRTH_DATE)
        max_interp_x == MaxInterpX(end_view, ref_data)
    IN  [kind |-> "band", ref_data |-> ref_data, max_date |-> max_date,
         end_view |-> end_view, max_interp_x |-> max_interp_x,
         i |-> i, sample |-> BandSample(ref_data, max_interp_x, i)]

BandStep ==
    /\ probe.kind = "band"
    /\ probe.i < NumSamples - 1
    /\ probe' = BandProbe(probe.ref_data, probe.max_date, probe.i + 1)
    /\ UNCHANGED appVars

InitBand ==
    /\ AppInit
    /\ tableExists = TRUE
    /\ \E ref_data \in { MALE_REF, FEMALE_REF }, max_date \in BandMaxDates :
          probe = BandProbe(ref_data, max_date, 0)

NextBand == BandStep

SpecBand == InitBand /\ [][NextBand]_vars

(***************************************************************************)
(* Properties of calculate_age_months, under SpecAge.                      *)
(***************************************************************************)
\* the months an age under SpecAge can reach
MonthsInHorizon == 0..((HorizonDays \div 28) + 1)

\* C5: calculate_age_months never returns a negative value: at or before the
\* birth date it returns exactly 0, after it a value >= 0 (with a positive
\* denominator, so no division by zero happened).
C5_AgeNeverNegative ==
    probe.kind = "age" =>
        /\ probe.a2[2] > 0
        /\ probe.a2[1] >= 0
        /\ (probe.d2 <= probe.birth => probe.a2[1] = 0)

\* C5 witness: the function was applied before the birth date and then
\* exactly at it
C5_Witness ==
    /\ probe.kind = "age"
    /\ probe.d1 < probe.birth
    /\ probe.d2 = probe.birth
    /\ probe.a1[1] = 0
    /\ probe.a2[1] = 0

\* C6: for a fixed birth date, d1 < d2 implies age(d1) <= age(d2).
C6_AgeMonotone ==
    (probe.kind = "age" /\ probe.d1 < probe.d2) => RatLE(probe.a1, probe.a2)

\* C6 witness: birth on the 31st, d1 on the clamped month end 2024-02-29 of
\* a leap year, d2 in March
C6_Witness ==
    /\ probe.kind = "age"
    /\ probe.birth = Timestamp(2024, 1, 31, 0, 0)
    /\ DateOf(probe.d1) = [y |-> 2024, m |-> 2, d |-> 29]
    /\ DateOf(probe.d2).m = 3
    /\ RatLT(probe.a1, probe.a2)

\* C7: for current >= birth the age is full_months + remainder_days / L,
\* where full_months is the number n of whole calendar months elapsed
\* (birth + n months <= current < birth + (n+1) months), remainder_days the
\* whole days since birth + n months and L the length in days of
\* [birth + n months, birth + (n+1) months]; L > 0 and 0 <= remainder < L, so
\* n <= age < n + 1.  With birth 2025-08-30, age(2025-09-30) = 1 and
\* age(2025-09-15) = 16/31.
C7_AgeIsMonthsPlusFraction ==
    (probe.kind = "age" /\ probe.d2 >= probe.birth) =>
        /\ \E n \in MonthsInHorizon :
              LET lo  == AddMonths(probe.birth, n)
                  hi  == AddMonths(probe.birth, n + 1)
                  rem == DaysBetween(probe.d2, lo)
                  L   == DaysBetween(hi, lo)
              IN  /\ lo <= probe.d2 /\ probe.d2 < hi
                  /\ L > 0 /\ 0 <= rem /\ rem < L
                  /\ RatEQ(probe.a2, Rat(n * L + rem, L))
                  /\ RatLE(Rat(n, 1), probe.a2) /\ RatLT(probe.a2, Rat(n + 1, 1))
        /\ (probe.birth = BIRTH_DATE /\ DateOf(probe.d2) = [y |-> 2025, m |-> 9, d |-> 30])
              => RatEQ(probe.a2, Rat(1, 1))
        /\ (probe.birth = BIRTH_DATE /\ DateOf(probe.d2) = [y |-> 2025, m |-> 9, d |-> 15])
              => RatEQ(probe.a2, Rat(16, 31))

\* C7 witness: the spec's example, 2025-09-15 for birth 2025-08-30
C7_Witness ==
    /\ probe.kind = "age"
    /\ probe.birth = BIRTH_DATE
    /\ DateOf(probe.d2) = [y |-> 2025, m |-> 9, d |-> 15]
    /\ probe.a2 = Rat(16, 31)

(***************************************************************************)
(* Properties of the reference band, under SpecBand.                       *)
(***************************************************************************)
\* whether value v lies on the straight line through calibration points k
\* and k+1 of column c at abscissa x
OnSegment(ref_data, c, k, x, v) ==
    RatMul(RatSub(v, Rat(ref_data[k][c], 1)), RatSub(ref_data[k + 1][1], ref_data[k][1]))
      = RatMul(Rat(ref_data[k + 1][c] - ref_data[k][c], 1), RatSub(x, ref_data[k][1]))

\* C8: the band is sampled on [0, domain_max], domain_max = max(end_view,
\* last calibration age); at every sample x the lower and upper values are
\* the first row's bounds below the first calibration age, the last row's
\* bounds above the last, a row's bounds exactly at its age, and between two
\* neighbouring calibration ages on the straight line through their bounds.
C8_BandIsClampedInterpolation ==
    probe.kind = "band" =>
        LET ref  == probe.ref_data
            n    == Len(ref)
            dmax == probe.max_interp_x
            x    == probe.sample.x
            lo   == probe.sample.lo
            hi   == probe.sample.hi
        IN  /\ RatLE(probe.end_view, dmax) /\ RatLE(ref[n][1], dmax)
            /\ RatEQ(dmax, probe.end_view) \/ RatEQ(dmax, ref[n][1])
            /\ RatLE(Rat(0, 1), x) /\ RatLE(x, dmax)
            /\ probe.i = 0 => RatEQ(x, Rat(0, 1))
            /\ probe.i = NumSamples - 1 => RatEQ(x, dmax)
            /\ RatLT(x, ref[1][1]) => (lo = Rat(ref[1][2], 1) /\ hi = Rat(ref[1][3], 1))
            /\ RatLT(ref[n][1], x) => (lo = Rat(ref[n][2], 1) /\ hi = Rat(ref[n][3], 1))
            /\ \A k \in 1..n :
                  RatEQ(x, ref[k][1]) => (lo = Rat(ref[k][2], 1) /\ hi = Rat(ref[k][3], 1))
            /\ \A k \in 1..(n - 1) :
                  (RatLE(ref[k][1], x) /\ RatLE(x, ref[k + 1][1])) =>
                      (OnSegment(ref, 2, k, x, lo) /\ OnSegment(ref, 3, k, x, hi))

\* C8 witness: a band that extends beyond the last calibration age, at a
\* sample strictly inside the table that falls exactly on the 2-month row
C8_Witness ==
    /\ probe.kind = "band"
    /\ RatLT(Rat(10, 1), probe.max_interp_x)
    /\ probe.i > 0
    /\ RatEQ(probe.sample.x, Rat(2, 1))
    /\ probe.sample.lo = Rat(90, 1)

\* a second reachable case of C8: a sample above the last calibration age
C8_ClampedAbove ==
    /\ probe.kind = "band"
    /\ RatLT(Rat(10, 1), probe.sample.x)
    /\ probe.sample.hi = Rat(probe.ref_data[Len(probe.ref_data)][3], 1)

(***************************************************************************)
(* Properties of the application, under Spec.                              *)
(***************************************************************************)
\* a step taken by the handler of `route` (the clock stands still while a
\* request is served; Tick keeps the last request and moves the clock)
Served(route) == request'.route = route /\ now' = now

IsCalendarDate(date) ==
    /\ date.shape = "YYYY-MM-DD"
    /\ date.m \in 1..12
    /\ date.d \in 1..DaysInMonth(date.y, date.m)

\* the well-formed rows of the table not older than the duration window
InWindow(table, clock, duration_months) ==
    { r \in table : /\ Parseable(r.date_str)
                    /\ ToDatetime(r.date_str)
                         >= clock - duration_months * DaysPerMonth * MinutesPerDay }

RowIds(table) == { r.id : r \in table }

TableIds(table_data) == { table_data[k][1] : k \in 1..Len(table_data) }

\* the previous request was an add_entry that stored a row with a calendar
\* date, and this step serves index with the default duration
AddThenDefaultRead ==
    /\ request.route = "add"
    /\ response = RedirectTo("index")
    /\ IsCalendarDate(request.date)
    /\ HasUser(session)
    /\ Served("index")
    /\ request'.duration = DefaultDuration

\* row of table_data (id, cat_name, date_str, weight) is what the add_entry
\* in `req` submitted; the weight text 4.25 is 425 hundredths
SameRecord(row, req) ==
    /\ row[2] = req.cat_name
    /\ req.weight = <<"4", ".", "2", "5">> => row[4] = 425
    /\ Parseable(row[3])
    /\ LET f == DateOf(ToDatetime(row[3]))
       IN  /\ f.y = req.date.y /\ f.m = req.date.m /\ f.d = req.date.d
           /\ req.time # EmptyText =>
                 /\ HourOf(ToDatetime(row[3])) = req.time.hh
                 /\ MinuteOf(ToDatetime(row[3])) = req.time.mi

\* C1 as stated: after a logged-in add_entry, a following default read
\* returns a record with the same cat_name, weight, date and hour:minute,
\* for every date submitted and every clock.
C1_RoundTripAnyDate ==
    [][ AddThenDefaultRead =>
          /\ response'.kind = "page"
          /\ \E k \in 1..Len(response'.table_data) :
                SameRecord(response'.table_data[k], request)
      ]_vars

\* C1 amended: the stored row carries the same cat_name, weight, date and
\* hour:minute; the following default read returns it exactly when its
\* timestamp is not earlier than 60 days before the clock at the read, and
\* the read fails instead when some stored date_str is unparseable.
C1_RoundTripWithinWindow ==
    [][ AddThenDefaultRead =>
          LET added == CHOOSE r \in weights : r.id = nextId - 1
              row   == <<added.id, added.cat_name, added.date_str, added.weight>>
          IN  /\ \E r \in weights : r.id = nextId - 1
              /\ SameRecord(row, request)
              /\ IF \E r \in weights : ~Parseable(r.date_str)
                 THEN response' = ServerError
                 ELSE /\ response'.kind = "page"
                      /\ (ToDatetime(added.date_str)
                             >= now - DefaultDuration * DaysPerMonth * MinutesPerDay)
                           <=> (\E k \in 1..Len(response'.table_data) :
                                   response'.table_data[k] = row)
      ]_vars

\* C1 witness: a record added with a submitted time was read back
C1_Witness ==
    /\ request.route = "index"
    /\ request.duration = DefaultDuration
    /\ response.kind = "page"
    /\ \E k \in 1..Len(response.table_data) :
          /\ response.table_data[k][1] = nextId - 1
          /\ response.table_data[k][3] =
                 FormatDateStr(DateText(2026, 1, 3), TimeText(9, 30))
          /\ response.table_data[k][4] = 425

\* C2 as stated: after a logged-in delete_entry(k) no record has id k, the
\* other records are unchanged and the count is exactly one less.
C2_DeleteAlwaysRemovesOne ==
    [][ (Served("delete") /\ HasUser(session) /\ response' = RedirectTo("index")) =>
          /\ request'.entry_id \notin RowIds(weights')
          /\ \A r \in weights : r.id # request'.entry_id => r \in weights'
          /\ Cardinality(weights') = Cardinality(weights) - 1
      ]_vars

\* C2 amended: delete_entry(k) removes the record with id k and nothing
\* else; the count is one less when a record with id k existed and the same
\* otherwise; an id that was assigned and is gone never comes back.
C2_DeleteRemovesExactlyThatId ==
    [][ /\ (Served("delete") /\ HasUser(session) /\ response' = RedirectTo("index")) =>
              /\ request'.entry_id \notin RowIds(weights')
              /\ weights' \subseteq weights
              /\ \A r \in weights : r.id # request'.entry_id => r \in weights'
              /\ Cardinality(weights') =
                     Cardinality(weights)
                       - (IF request'.entry_id \in RowIds(weights) THEN 1 ELSE 0)
        /\ \A k \in 1..(nextId - 1) : k \notin RowIds(weights) => k \notin RowIds(weights')
        /\ Cardinality(RowIds(weights')) = Cardinality(weights')
      ]_vars

\* C2 witness: a delete removed one of two records
C2_Witness ==
    /\ request.route = "delete"
    /\ response = RedirectTo("index")
    /\ nextId = 3
    /\ Cardinality(weights) = 1
    /\ request.entry_id \notin RowIds(weights)

\* C3 as stated: a read never fails; rows whose date_str does not parse are
\* left out and the page is built from the well-formed rows.
C3_ReadDropsMalformedRows ==
    [][ (Served("index") /\ HasUser(session)) =>
          /\ response'.kind = "page"
          /\ TableIds(response'.table_data)
               = RowIds(InWindow(ReadAll(tableExists, weights), now, request'.duration))
      ]_vars

\* C4: when the working set is empty (table missing or empty, or no row
\* within the duration window) the page has no chart and no table row, and
\* create_interactive_plot was not called; a chart is only ever drawn from a
\* non-empty working set.
C4_EmptyWorkingSetNoCharts ==
    [][ (Served("index") /\ HasUser(session)) =>
          LET df == ReadAll(tableExists, weights)
              ws == InWindow(df, now, request'.duration)
          IN  /\ (df = {} \/ ((\A r \in df : Parseable(r.date_str)) /\ ws = {})) =>
                    /\ response'.kind = "page"
                    /\ response'.simba_plot = NoPlot
                    /\ response'.nala_plot = NoPlot
                    /\ response'.table_data = << >>
              /\ (response'.kind = "page" /\ ws # {}) =>
                    /\ response'.simba_plot.kind = "figure"
                    /\ response'.nala_plot.kind = "figure"
              /\ (response'.kind = "page" /\ ws = {}) =>
                    /\ response'.simba_plot = NoPlot
                    /\ response'.nala_plot = NoPlot
      ]_vars

\* C4 witness: a read of a non-empty table none of whose rows is within the
\* window
C4_Witness ==
    /\ request.route = "index"
    /\ response.kind = "page"
    /\ response.simba_plot = NoPlot
    /\ response.nala_plot = NoPlot
    /\ response.table_data = << >>
    /\ tableExists
    /\ weights # {}
    /\ InWindow(weights, now, request.duration) = {}

\* C9: both charts get the x range [age(min - 7 days), age(max + 7 days)]
\* with min and max the earliest and latest timestamps of the whole working
\* set; the lower end is 0 when min - 7 days is before birth; start <= end; a
\* cat without records has the band over that window and no data trace.
C9_SharedViewWindow ==
    [][ (Served("index") /\ HasUser(session) /\ response'.kind = "page"
           /\ response'.table_data # << >>) =>
          LET ws    == InWindow(weights, now, request'.duration)
              dates == { ToDatetime(r.date_str) : r \in ws }
              lo    == CHOOSE t \in dates : \A u \in dates : t <= u
              hi    == CHOOSE t \in dates : \A u \in dates : u <= t
              start == calculate_age_months(lo - ViewPadDays * MinutesPerDay, BIRTH_DATE)
              end   == calculate_age_months(hi + ViewPadDays * MinutesPerDay, BIRTH_DATE)
              figs  == << response'.simba_plot, response'.nala_plot >>
          IN  /\ ws # {}
              /\ \A i \in 1..2 :
                    /\ figs[i].kind = "figure"
                    /\ figs[i].xrange = <<start, end>>
                    /\ Len(figs[i].trace)
                         = Cardinality({ r \in ws : r.cat_name = figs[i].title })
                    /\ RatLE(end, figs[i].band.max_interp_x)
                    /\ RatLE(Rat(10, 1), figs[i].band.max_interp_x)
              /\ response'.simba_plot.title = "Simba"
              /\ response'.nala_plot.title = "Nala"
              /\ response'.simba_plot.band.ref_data = MALE_REF
              /\ response'.nala_plot.band.ref_data = FEMALE_REF
              /\ (lo - ViewPadDays * MinutesPerDay < BIRTH_DATE) => start[1] = 0
              /\ RatLE(start, end)
      ]_vars

\* C9 witness: two records of one cat, the earlier one dated before birth,
\* and a chart for the other cat with no data trace
C9_Witness ==
    /\ request.route = "index"
    /\ response.kind = "page"
    /\ Len(response.table_data) = 2
    /\ response.simba_plot.kind = "figure"
    /\ Len(response.simba_plot.trace) = 2
    /\ response.nala_plot.trace = << >>
    /\ response.nala_plot.xrange = response.simba_plot.xrange
    /\ response.nala_plot.xrange[1][1] = 0
    /\ RatLT(response.nala_plot.xrange[1], response.nala_plot.xrange[2])

\* C10: the table changes only through an add_entry or delete_entry served
\* while the session holds a user; the session gets a user only by a login
\* with valid credentials and loses it only by logout; without a user,
\* index, add_entry and delete_entry redirect to login and change nothing.
C10_LoginGate ==
    [][ /\ weights' # weights =>
              /\ HasUser(session)
              /\ request'.route \in { "add", "delete" }
              /\ response' = RedirectTo("index")
        /\ (~HasUser(session) /\ (Served("index") \/ Served("add") \/ Served("delete"))) =>
              /\ response' = RedirectTo("login")
              /\ weights' = weights
              /\ session' = session
        /\ (~HasUser(session) /\ HasUser(session')) =>
              /\ request'.route = "login"
              /\ request'.method = "POST"
              /\ request'.username \in DOMAIN USERS
              /\ USERS[request'.username] = request'.password
              /\ session'.user = request'.username
        /\ (HasUser(session) /\ ~HasUser(session')) => request'.route = "logout"
        /\ (Served("login") /\ request'.method = "POST"
              /\ ~(request'.username = "moudimash99" /\ request'.password = "mashaka99"))
              => session' = session
        /\ Served("logout") => ~HasUser(session')
      ]_vars

\* C10 witness: a user logged in, logged out, and was then turned away by
\* add_entry while the table kept the row added before
C10_Witness ==
    /\ ~HasUser(session)
    /\ request.route = "add"
    /\ response = RedirectTo("login")
    /\ weights # {}

====
